---- MODULE Spec2Model ----
(***************************************************************************)
(* Model of jed_utils::SecureSMTPClientBase (src/src/securesmtpclientbase  *)
(* .cpp): the STARTTLS upgrade, the secure command channel, the resource   *)
(* teardown and the copy / move operations of the connection object.       *)
(*                                                                         *)
(* Every method is an operator from the object's fields and the outcomes   *)
(* of the library calls it makes (the environment) to the object's new     *)
(* fields, its return value and the log of the external calls it made, in  *)
(* order.  The actions apply the operators to the objects of the state.    *)
(***************************************************************************)
EXTENDS Integers, Sequences, FiniteSets, TLC

VARIABLES
    alive,      \* alive[o]: object o is constructed and not yet destroyed
    objs,       \* objs[o]: the fields of object o
    liveCtx,    \* SSL_CTX handles allocated and not freed
    liveBio,    \* BIO handles allocated and not freed
    doubleFree, \* a handle was freed that was not live
    platform,   \* the build: "WIN32" or "POSIX" (#ifdef _WIN32)
    cfgTimeout, \* the Timeout Budget objects are configured with
    hist,       \* hist[o]: whether startTLSNegotiation was called on o since
                \* it was constructed, and whether the last call succeeded
                \* with no cleanup() since; kept where `tracked` is set
    last        \* the last operation: name, objects, return value, call log

vars == <<alive, objs, liveCtx, liveBio, doubleFree, platform, cfgTimeout, hist, last>>

----------------------------------------------------------------------------
(* Bounds *)

\* handles of one kind that can be live at once
MaxAlloc == 2
\* largest Timeout Budget (seconds)
MaxTimeout == 2
\* library calls that may fail in the environment of one startTLSNegotiation
MaxFaults == 2

Obj == {"a", "b"}
Handles == 1..MaxAlloc
Socks == 1..2
LibErrors == {5}
Platforms == {"WIN32", "POSIX"}

----------------------------------------------------------------------------
(* Program constants *)

nullptr == 0
NoSock == 0
X509_V_OK == 0
X509_V_ERR == 18
EHLO_SUCCESS_CODE == 250

SSL_CLIENT_STARTTLS_INITSSLCTX_ERROR == -24
SSL_CLIENT_STARTTLS_BIONEWSSLCONNECT_ERROR == -25
SSL_CLIENT_STARTTLS_WIN_CERTOPENSYSTEMSTORE_ERROR == -26
SSL_CLIENT_STARTTLS_CTX_SET_DEFAULT_VERIFY_PATHS_ERROR == -27
SSL_CLIENT_STARTTLS_BIO_CONNECT_ERROR == -28
SSL_CLIENT_STARTTLS_BIO_HANDSHAKE_ERROR == -29
SSL_CLIENT_STARTTLS_GET_CERTIFICATE_ERROR == -30
SSL_CLIENT_STARTTLS_VERIFY_RESULT_ERROR == -31
SSL_CLIENT_INITSECURECLIENT_ERROR == -22
SSL_CLIENT_INITSECURECLIENT_TIMEOUT == -23

----------------------------------------------------------------------------
(* The call log: the external calls of one operation, in order.            *)

Min(S) == CHOOSE x \in S : \A y \in S : x <= y

Call(name, arg) == <<name, arg>>

CallNames(log) == [i \in 1..Len(log) |-> log[i][1]]

RECURSIVE Count(_, _)
Count(log, name) ==
    IF log = <<>> THEN 0
    ELSE (IF Head(log)[1] = name THEN 1 ELSE 0) + Count(Tail(log), name)

IsPrefix(s, t) == Len(s) <= Len(t) /\ SubSeq(t, 1, Len(s)) = s

FreeNames == {"SSL_CTX_free", "BIO_free_all", "close"}

RECURSIVE Frees(_)
Frees(log) ==
    IF log = <<>> THEN <<>>
    ELSE (IF Head(log)[1] \in FreeNames THEN <<Head(log)>> ELSE <<>>)
         \o Frees(Tail(log))

----------------------------------------------------------------------------
(* The object *)

\* mAuthOptions: <<>> is the null pointer, <<caps>> points to the options
\* with the capabilities caps
NoAuth == <<>>

\* SecureSMTPClientBase(const char*, unsigned int): the three handles empty;
\* the base-class fields as the base constructor leaves them
NewObject(timeout) ==
    [mCTX |-> nullptr, mBIO |-> nullptr, mSSL |-> nullptr,
     mSock |-> NoSock, mLastSocketErrNo |-> 0,
     mLastServerResponse |-> <<>>, mCommandTimeOut |-> timeout,
     mAuthOptions |-> NoAuth]

\* the slot of an object that does not exist
Dead == NewObject(0)

\* a method under execution: the object's fields and the calls made so far
Begin(self) == [self |-> self, log |-> <<>>]

Do(w, name, arg) == [w EXCEPT !.log = Append(@, Call(name, arg))]

Return(w, code) == [self |-> w.self, log |-> w.log, ret |-> code]

\* the releases of cleanup(), in the order of the code
cleanupCalls(self, plat) ==
    (IF self.mCTX # nullptr THEN <<Call("SSL_CTX_free", self.mCTX)>> ELSE <<>>)
    \o (IF self.mBIO # nullptr THEN <<Call("BIO_free_all", self.mBIO)>> ELSE <<>>)
    \o (IF self.mSock # NoSock
        THEN (IF plat = "WIN32" THEN <<Call("shutdown", self.mSock)>> ELSE <<>>)
             \o <<Call("close", self.mSock)>>
        ELSE <<>>)
    \o (IF plat = "WIN32" THEN <<Call("WSACleanup", 0)>> ELSE <<>>)

\* cleanup() that frees the context and leaves mCTX set
cleanup_keepCTX(w, plat) ==
    [self |-> [w.self EXCEPT !.mBIO = nullptr, !.mSock = NoSock, !.mSSL = nullptr],
     log  |-> w.log \o cleanupCalls(w.self, plat)]

\* cleanup(): each release guarded, each field reset
cleanup(w, plat) ==
    [self |-> [w.self EXCEPT !.mCTX = nullptr, !.mBIO = nullptr,
                             !.mSock = NoSock, !.mSSL = nullptr],
     log  |-> w.log \o cleanupCalls(w.self, plat)]

----------------------------------------------------------------------------
(* startTLSNegotiation *)

\* the library calls of the handshake that can fail, and the advisory one
Fallible == {"Init", "Bind", "Trust", "Connect", "Handshake", "Cert", "Verify"}
Advisory == "PreCheck"

\* the calls after which the code reads the library's error code
ErrorReaders == {"Init", "Trust", "Connect", "Handshake"}

\* environments of one call: which library calls fail (the advisory read
\* "fails" when it yields a value other than X509_V_OK) and the error code
\* the library holds then
TLSEnvs ==
    { env \in [fail : {x \in SUBSET (Fallible \cup {Advisory}) : Cardinality(x) <= MaxFaults},
               err : LibErrors] :
        env.fail \cap ErrorReaders = {} => env.err = Min(LibErrors) }

TrustCall(plat) ==
    IF plat = "WIN32" THEN "CertOpenSystemStore" ELSE "SSL_CTX_set_default_verify_paths"

TrustError(plat) ==
    IF plat = "WIN32" THEN SSL_CLIENT_STARTTLS_WIN_CERTOPENSYSTEMSTORE_ERROR
    ELSE SSL_CLIENT_STARTTLS_CTX_SET_DEFAULT_VERIFY_PATHS_ERROR

\* initializeSSLContext(): mCTX = SSL_CTX_new(method); on failure the
\* library error is kept
initializeSSLContext(w, env, ctx) ==
    LET c  == IF "Init" \in env.fail THEN nullptr ELSE ctx
        w1 == Do([w EXCEPT !.self.mCTX = c], "SSL_CTX_new", c)
    IN  IF c = nullptr
        THEN Do([w1 EXCEPT !.self.mLastSocketErrNo = env.err], "ERR_get_error", env.err)
        ELSE w1

\* line 201-228 with the teardown missing where no certificate was presented
CheckNegotiation_noCleanup(w, env, plat) ==
    LET cert == IF "Cert" \in env.fail THEN nullptr ELSE 1
        w7a == Do(w, "SSL_get_peer_certificate", cert)
        w7 == IF cert # nullptr THEN Do(w7a, "X509_free", cert) ELSE w7a
    IN  IF cert = nullptr
        THEN Return(w7, SSL_CLIENT_STARTTLS_GET_CERTIFICATE_ERROR)
        ELSE
    LET res == IF "Verify" \in env.fail THEN X509_V_ERR ELSE X509_V_OK
        w8 == Do(w7, "SSL_get_verify_result", res)
    IN  IF ~(X509_V_OK = res)
        THEN Return(cleanup(w8, plat), SSL_CLIENT_STARTTLS_VERIFY_RESULT_ERROR)
        ELSE
    IF plat = "WIN32"
    THEN Return(Do(Do(w8, "CertFreeCertificateContext", 0), "CertCloseStore", 1), 0)
    ELSE Return(w8, 0)

\* line 201-228: a peer certificate was presented (and is freed at once),
\* the chain verification succeeded; on WIN32 the store is closed on success
CheckNegotiation(w, env, plat) ==
    LET cert == IF "Cert" \in env.fail THEN nullptr ELSE 1
        w7a == Do(w, "SSL_get_peer_certificate", cert)
        w7 == IF cert # nullptr THEN Do(w7a, "X509_free", cert) ELSE w7a
    IN  IF cert = nullptr
        THEN Return(cleanup(w7, plat), SSL_CLIENT_STARTTLS_GET_CERTIFICATE_ERROR)
        ELSE
    LET res == IF "Verify" \in env.fail THEN X509_V_ERR ELSE X509_V_OK
        w8 == Do(w7, "SSL_get_verify_result", res)
    IN  IF ~(X509_V_OK = res)
        THEN Return(cleanup(w8, plat), SSL_CLIENT_STARTTLS_VERIFY_RESULT_ERROR)
        ELSE
    IF plat = "WIN32"
    THEN Return(Do(Do(w8, "CertFreeCertificateContext", 0), "CertCloseStore", 1), 0)
    ELSE Return(w8, 0)

\* line 186-199: connect and handshake; cleanup() runs before the library
\* error is read
Negotiate(w, env, plat) ==
    LET connected == IF "Connect" \in env.fail THEN 0 ELSE 1
        w5 == Do(w, "BIO_do_connect", connected)
    IN  IF connected <= 0
        THEN LET c == Do(cleanup(w5, plat), "ERR_get_error", env.err)
             IN  Return([c EXCEPT !.self.mLastSocketErrNo = env.err],
                        SSL_CLIENT_STARTTLS_BIO_CONNECT_ERROR)
        ELSE
    LET shaken == IF "Handshake" \in env.fail THEN 0 ELSE 1
        w6 == Do(w5, "BIO_do_handshake", shaken)
    IN  IF shaken <= 0
        THEN LET c == Do(cleanup(w6, plat), "ERR_get_error", env.err)
             IN  Return([c EXCEPT !.self.mLastSocketErrNo = env.err],
                        SSL_CLIENT_STARTTLS_BIO_HANDSHAKE_ERROR)
        ELSE CheckNegotiation(w6, env, plat)

PreCheck_recording(w, env) ==
    LET verify_flag == IF Advisory \in env.fail THEN X509_V_ERR ELSE X509_V_OK
        w4 == Do(w, "SSL_get_verify_result", verify_flag)
    IN  IF verify_flag # X509_V_OK
        THEN Do([w4 EXCEPT !.self.mLastSocketErrNo = verify_flag], "fprintf", verify_flag)
        ELSE w4

\* line 179-184: the advisory read of the verification result
PreCheck(w, env) ==
    LET verify_flag == IF Advisory \in env.fail THEN X509_V_ERR ELSE X509_V_OK
        w4 == Do(w, "SSL_get_verify_result", verify_flag)
    IN  IF verify_flag # X509_V_OK THEN Do(w4, "fprintf", verify_flag) ELSE w4

\* line 152-178 going on to the handshake after the trust store failed
ProvisionTrust_goOn(w, env, plat) ==
    LET trusted == IF "Trust" \in env.fail THEN 0 ELSE 1
        w3 == Do(w, TrustCall(plat), trusted)
    IN  IF plat = "WIN32" /\ trusted # 0
        THEN Negotiate(PreCheck(Do(w3, "CertEnumCertificatesInStore", 0), env), env, plat)
        ELSE Negotiate(PreCheck(w3, env), env, plat)

\* line 152-178: the roots of trust, from the system store (WIN32) or the
\* default paths; then the rest of the negotiation
ProvisionTrust(w, env, plat) ==
    LET trusted == IF "Trust" \in env.fail THEN 0 ELSE 1
        w3 == Do(w, TrustCall(plat), trusted)
    IN  IF trusted = 0
        THEN IF plat = "WIN32"
             THEN Return(Do([w3 EXCEPT !.self.mLastSocketErrNo = env.err],
                            "GetLastError", env.err),
                         TrustError(plat))
             ELSE Return(w3, TrustError(plat))
        ELSE IF plat = "WIN32"
        THEN Negotiate(PreCheck(Do(w3, "CertEnumCertificatesInStore", 0), env), env, plat)
        ELSE Negotiate(PreCheck(w3, env), env, plat)

\* startTLSNegotiation(): ctx and bio are the handles the two allocations
\* return when they succeed
startTLSNegotiation(self, env, ctx, bio, plat) ==
    LET w1 == initializeSSLContext(Begin(self), env, ctx)
    IN  IF w1.self.mCTX = nullptr
        THEN Return(w1, SSL_CLIENT_STARTTLS_INITSSLCTX_ERROR)
        ELSE
    LET b  == IF "Bind" \in env.fail THEN nullptr ELSE bio
        w2 == Do([w1 EXCEPT !.self.mBIO = b], "BIO_new_ssl_connect", b)
    IN  IF w2.self.mBIO = nullptr
        THEN Return(w2, SSL_CLIENT_STARTTLS_BIONEWSSLCONNECT_ERROR)
        ELSE
    LET \* BIO_get_ssl(mBIO, &mSSL): the session inside the BIO
        w2a == Do([w2 EXCEPT !.self.mSSL = b], "BIO_get_ssl", b)
        w2b == Do(w2a, "SSL_set_fd", self.mSock)
    IN  ProvisionTrust(w2b, env, plat)

----------------------------------------------------------------------------
(* The secure command channel *)

\* server replies, as the bytes one BIO_read delivers
Reply250 == <<"2", "5", "0", " ", "O", "K", "\r", "\n">>
Reply503 == <<"5", "0", "3", " ", "N", "O", "\r", "\n">>
ReplyEhlo == <<"2", "5", "0", "-", "A", "\r", "\n", "2", "5", "0", " ", "B", "\r", "\n">>
Responses == {Reply250, Reply503, ReplyEhlo}

\* environments of sendCommand: the result of the write and the library's
\* error code when it fails
WriteEnvs ==
    { env \in [write : {-1, 0, 1}, err : LibErrors] :
        env.write >= 0 => env.err = Min(LibErrors) }

\* environments of sendCommandWithFeedback: the write fails; or it succeeds
\* and the server stays silent; or it succeeds and the server's data is
\* there from read attempt `arrive` on (counted from 0)
FeedbackEnvs(timeout) ==
    { [write |-> -1, err |-> e, silent |-> TRUE, arrive |-> 0, data |-> Reply250] :
        e \in LibErrors }
    \cup
    { [write |-> 1, err |-> Min(LibErrors), silent |-> TRUE, arrive |-> 0, data |-> Reply250] }
    \cup
    [write : {1}, err : {Min(LibErrors)}, silent : {FALSE}, arrive : 0..timeout,
     data : Responses]

\* what a read yields while the server's data is not there: an error, or
\* nothing, in turn
NoData(attempt) == IF attempt % 2 = 0 THEN -1 ELSE 0

\* the error and timeout codes callers pass
CallerCodes == { <<SSL_CLIENT_INITSECURECLIENT_ERROR, SSL_CLIENT_INITSECURECLIENT_TIMEOUT>>,
                 <<-40, -41>> }

NUL == "NUL"
Whitespace == {" ", "\t", "\r", "\n"}
Digits == <<"0", "1", "2", "3", "4", "5", "6", "7", "8", "9">>
IsDigit(c) == \E i \in 1..10 : Digits[i] = c
DigitVal(c) == (CHOOSE i \in 1..10 : Digits[i] = c) - 1

\* the C string held in a buffer: the characters before the first NUL
RECURSIVE CString(_)
CString(buf) ==
    IF buf = <<>> \/ Head(buf) = NUL THEN <<>>
    ELSE <<Head(buf)>> \o CString(Tail(buf))

\* the first whitespace-delimited token of a text
RECURSIVE FirstToken(_)
FirstToken(text) ==
    IF text = <<>> \/ Head(text) \in Whitespace THEN <<>>
    ELSE <<Head(text)>> \o FirstToken(Tail(text))

\* the integer the leading digits of a token denote
RECURSIVE LeadingInt(_, _)
LeadingInt(tok, acc) ==
    IF tok = <<>> \/ ~IsDigit(Head(tok)) THEN acc
    ELSE LeadingInt(Tail(tok), 10 * acc + DigitVal(Head(tok)))

\* SMTPClientBase::extractReturnCode: the leading status code of a reply
extractReturnCode(text) == LeadingInt(FirstToken(text), 0)

\* SMTPClientBase::setLastServerResponse: keeps a copy of the C string
setLastServerResponse(w, buf) == [w EXCEPT !.self.mLastServerResponse = CString(buf)]

\* BIO_puts(mBIO, pCommand): an empty BIO is refused by the library
BIO_puts(self, env) == IF self.mBIO = nullptr THEN -1 ELSE env.write

\* BIO_read(mBIO, outbuf, 1024), the attempt-th read of the call
BIO_read(self, env, attempt) ==
    IF self.mBIO = nullptr THEN -1
    ELSE IF env.silent \/ attempt < env.arrive THEN NoData(attempt) ELSE Len(env.data)

\* sendCommand() taking a write of nothing for a failure
sendCommand_zeroFails(self, env, pErrorCode, plat) ==
    LET status == BIO_puts(self, env)
        w1 == Do(Begin(self), "BIO_puts", status)
    IN  IF status <= 0
        THEN LET w2 == Do([w1 EXCEPT !.self.mLastSocketErrNo = env.err],
                          "ERR_get_error", env.err)
             IN  Return(cleanup(w2, plat), pErrorCode)
        ELSE Return(w1, 0)

\* sendCommand(): the library error is read before the teardown
sendCommand(self, env, pErrorCode, plat) ==
    LET status == BIO_puts(self, env)
        w1 == Do(Begin(self), "BIO_puts", status)
    IN  IF status < 0
        THEN LET w2 == Do([w1 EXCEPT !.self.mLastSocketErrNo = env.err],
                          "ERR_get_error", env.err)
             IN  Return(cleanup(w2, plat), pErrorCode)
        ELSE Return(w1, 0)

\* the loop condition with the budget compared by <=
KeepPolling_inclusive(bytes_received, waitTime, mCommandTimeOut) ==
    bytes_received <= 0 /\ waitTime <= mCommandTimeOut

\* the loop condition of line 270
KeepPolling(bytes_received, waitTime, mCommandTimeOut) ==
    bytes_received <= 0 /\ waitTime < mCommandTimeOut

\* the test of line 274 accepting only before the last second of the budget
InBudget_early(waitTime, mCommandTimeOut) == waitTime + 1 < mCommandTimeOut

\* the test of line 274: the loop ended within the budget
InBudget(waitTime, mCommandTimeOut) == waitTime < mCommandTimeOut

\* the polling loop of sendCommandWithFeedback (line 270-273)
RECURSIVE PollLoop(_, _, _)
PollLoop(w, env, waitTime) ==
    LET bytes_received == BIO_read(w.self, env, waitTime)
        w1 == Do(w, "BIO_read", bytes_received)
    IN  IF KeepPolling(bytes_received, waitTime, w.self.mCommandTimeOut)
        THEN PollLoop(Do(w1, "sleep", 1), env, waitTime + 1)
        ELSE [w |-> w1, waitTime |-> waitTime, bytes_received |-> bytes_received]

Terminate_firstLine(data, bytes_received) ==
    [data EXCEPT ![Min({k \in 1..bytes_received : data[k] \in {"\r", "\n"}}
                       \cup {bytes_received})] = NUL]

\* outbuf[bytes_received-1] = '\0' on the bytes the read delivered
Terminate(data, bytes_received) == [data EXCEPT ![bytes_received] = NUL]

\* sendCommandWithFeedback()
sendCommandWithFeedback(self, env, pErrorCode, pTimeoutCode, plat) ==
    LET status == BIO_puts(self, env)
        w1 == Do(Begin(self), "BIO_puts", status)
    IN  IF status < 0
        THEN LET w2 == Do([w1 EXCEPT !.self.mLastSocketErrNo = env.err],
                          "ERR_get_error", env.err)
             IN  Return(cleanup(w2, plat), pErrorCode)
        ELSE
    LET r == PollLoop(w1, env, 0)
    IN  IF InBudget(r.waitTime, self.mCommandTimeOut)
        THEN LET outbuf == Terminate(env.data, r.bytes_received)
             IN  Return(setLastServerResponse(r.w, outbuf), extractReturnCode(CString(outbuf)))
        ELSE Return(cleanup(r.w, plat), pTimeoutCode)

\* the lines of a text, split at the line feeds
RECURSIVE Lines(_)
Lines(text) ==
    IF text = <<>> THEN <<>>
    ELSE IF \E i \in 1..Len(text) : text[i] = "\n"
    THEN LET i == Min({j \in 1..Len(text) : text[j] = "\n"})
         IN  <<SubSeq(text, 1, i - 1)>> \o Lines(SubSeq(text, i + 1, Len(text)))
    ELSE <<text>>

NotCR(c) == c # "\r"

\* the capability a reply line advertises: the text after the status code
\* and its separator
Capability(line) == SelectSeq(SubSeq(line, 5, Len(line)), NotCR)

\* SMTPClientBase::extractAuthenticationOptions: a new options object
\* holding the capabilities advertised in the lines of an EHLO response
extractAuthenticationOptions(text) ==
    << { Capability(Lines(text)[i]) : i \in 1..Len(Lines(text)) } >>

\* the options the base class captured from the plaintext EHLO
PlainAuthOptions == << { <<"S">> } >>

getServerSecureIdentification_noDelete(self, env, plat) ==
    LET r == sendCommandWithFeedback(self, env, SSL_CLIENT_INITSECURECLIENT_ERROR,
                                     SSL_CLIENT_INITSECURECLIENT_TIMEOUT, plat)
    IN  IF r.ret # EHLO_SUCCESS_CODE THEN r
        ELSE LET w == Do([self |-> r.self, log |-> r.log],
                         "extractAuthenticationOptions", 1)
             IN  Return([w EXCEPT !.self.mAuthOptions =
                             extractAuthenticationOptions(r.self.mLastServerResponse)],
                        EHLO_SUCCESS_CODE)

\* getServerSecureIdentification(): "ehlo localhost" over the secure
\* channel; on 250 the old options are deleted (delete of a null pointer
\* is logged with 0) and the ones parsed from the response take their place
getServerSecureIdentification(self, env, plat) ==
    LET r == sendCommandWithFeedback(self, env, SSL_CLIENT_INITSECURECLIENT_ERROR,
                                     SSL_CLIENT_INITSECURECLIENT_TIMEOUT, plat)
    IN  IF r.ret # EHLO_SUCCESS_CODE THEN r
        ELSE LET w1 == Do([self |-> r.self, log |-> r.log],
                          "delete", Len(r.self.mAuthOptions))
                 w2 == Do(w1, "extractAuthenticationOptions", 1)
             IN  Return([w2 EXCEPT !.self.mAuthOptions =
                             extractAuthenticationOptions(r.self.mLastServerResponse)],
                        EHLO_SUCCESS_CODE)

----------------------------------------------------------------------------
(* Copy and move *)

\* SMTPClientBase copy: the base-class fields of the copy; the socket is
\* owned by one object and is not shared
SMTPClientBase_copy(other) ==
    [mSock |-> NoSock, mLastSocketErrNo |-> other.mLastSocketErrNo,
     mLastServerResponse |-> other.mLastServerResponse,
     mCommandTimeOut |-> other.mCommandTimeOut,
     mAuthOptions |-> other.mAuthOptions]

\* SMTPClientBase move: the socket goes to the destination
SMTPClientBase_move(other) ==
    [self  |-> [mSock |-> other.mSock, mLastSocketErrNo |-> other.mLastSocketErrNo,
                mLastServerResponse |-> other.mLastServerResponse,
                mCommandTimeOut |-> other.mCommandTimeOut,
                mAuthOptions |-> other.mAuthOptions],
     other |-> [other EXCEPT !.mSock = NoSock, !.mLastServerResponse = <<>>,
                             !.mAuthOptions = NoAuth]]

WithHandles(base, ctx, bio, ssl) ==
    [mCTX |-> ctx, mBIO |-> bio, mSSL |-> ssl,
     mSock |-> base.mSock, mLastSocketErrNo |-> base.mLastSocketErrNo,
     mLastServerResponse |-> base.mLastServerResponse,
     mCommandTimeOut |-> base.mCommandTimeOut,
     mAuthOptions |-> base.mAuthOptions]

\* copy constructor that copies the handles
copyConstruct_shared(other) ==
    WithHandles(SMTPClientBase_copy(other), other.mCTX, other.mBIO, other.mSSL)

\* copy constructor (line 39-45)
copyConstruct(other) ==
    WithHandles(SMTPClientBase_copy(other), nullptr, nullptr, nullptr)

\* copy assignment (line 48-57), this != &other
copyAssign(self, other) ==
    WithHandles(SMTPClientBase_copy(other), nullptr, nullptr, nullptr)

\* move constructor that leaves the handles in the source
moveConstruct_keep(other) ==
    LET b == SMTPClientBase_move(other)
    IN  [self  |-> WithHandles(b.self, other.mCTX, other.mBIO, other.mSSL),
         other |-> b.other]

\* move constructor (line 60-71)
moveConstruct(other) ==
    LET b == SMTPClientBase_move(other)
    IN  [self  |-> WithHandles(b.self, other.mCTX, other.mBIO, other.mSSL),
         other |-> [b.other EXCEPT !.mBIO = nullptr, !.mCTX = nullptr, !.mSSL = nullptr]]

\* move assignment (line 74-89), this != &other
moveAssign(self, other) ==
    LET b == SMTPClientBase_move(other)
    IN  [self  |-> WithHandles(b.self, other.mCTX, other.mBIO, other.mSSL),
         other |-> [b.other EXCEPT !.mBIO = nullptr, !.mCTX = nullptr, !.mSSL = nullptr]]

----------------------------------------------------------------------------
(* The heap of the TLS library and the descriptors of the process *)

\* the handle the next allocation returns; none when all are live
Fresh(liveSet) == IF Handles \ liveSet = {} THEN nullptr ELSE Min(Handles \ liveSet)

\* the lowest descriptor no object holds
FreshSock == Min(Socks \ {objs[o].mSock : o \in Obj})

\* the effect of the calls of a log on the live handles
RECURSIVE Heap(_, _)
Heap(h, log) ==
    IF log = <<>> THEN h
    ELSE LET c == Head(log)
             h1 == CASE c[1] = "SSL_CTX_new" /\ c[2] # nullptr ->
                          [h EXCEPT !.ctx = @ \cup {c[2]}]
                    [] c[1] = "BIO_new_ssl_connect" /\ c[2] # nullptr ->
                          [h EXCEPT !.bio = @ \cup {c[2]}]
                    [] c[1] = "SSL_CTX_free" ->
                          [h EXCEPT !.ctx = @ \ {c[2]}, !.bad = @ \/ c[2] \notin h.ctx]
                    [] c[1] = "BIO_free_all" ->
                          [h EXCEPT !.bio = @ \ {c[2]}, !.bad = @ \/ c[2] \notin h.bio]
                    [] OTHER -> h
         IN  Heap(h1, Tail(log))

HeapNow == [ctx |-> liveCtx, bio |-> liveBio, bad |-> doubleFree]

SetHeap(log) ==
    \E h \in {Heap(HeapNow, log)} :
        /\ liveCtx' = h.ctx
        /\ liveBio' = h.bio
        /\ doubleFree' = h.bad

\* the record of the last operation
Op(name, o, src, ret, log, args, data) ==
    [op |-> name, o |-> o, src |-> src, ret |-> ret, log |-> log,
     args |-> args, data |-> data]

\* the history of an object that was just constructed
NoHist == [tracked |-> TRUE, called |-> FALSE, secure |-> FALSE]

\* the history of an object in a specification that keeps none
Untracked == [tracked |-> FALSE, called |-> FALSE, secure |-> FALSE]

\* the history of an object that is constructed anew or destroyed
Reset(h) == [h EXCEPT !.called = FALSE, !.secure = FALSE]

\* the history after a method that is not startTLSNegotiation: the session
\* stays established unless cleanup() ran
Kept(h, self) == [h EXCEPT !.secure = @ /\ self.mBIO # nullptr]

\* the history after startTLSNegotiation returned ret
Negotiated(h, ret) ==
    [h EXCEPT !.called = h.tracked, !.secure = h.tracked /\ ret = 0]

----------------------------------------------------------------------------
(* Actions *)

InitBase ==
    /\ platform \in Platforms
    /\ cfgTimeout \in 0..MaxTimeout
    /\ alive = [o \in Obj |-> o = "a"]
    /\ objs = [o \in Obj |-> IF o = "a" THEN NewObject(cfgTimeout) ELSE Dead]
    /\ liveCtx = {}
    /\ liveBio = {}
    /\ doubleFree = FALSE
    /\ last = Op("construct", "a", "a", 0, <<>>, <<>>, <<>>)

Init == InitBase /\ hist = [o \in Obj |-> NoHist]

Construct(o) ==
    /\ ~alive[o]
    /\ alive' = [alive EXCEPT ![o] = TRUE]
    /\ objs' = [objs EXCEPT ![o] = NewObject(cfgTimeout)]
    /\ hist' = [hist EXCEPT ![o] = Reset(@)]
    /\ last' = Op("construct", o, o, 0, <<>>, <<>>, <<>>)
    /\ UNCHANGED <<liveCtx, liveBio, doubleFree, platform, cfgTimeout>>

Destroy_noCleanup(o) ==
    /\ alive[o]
    /\ last' = Op("destroy", o, o, 0, <<>>, <<>>, <<>>)
    /\ alive' = [alive EXCEPT ![o] = FALSE]
    /\ objs' = [objs EXCEPT ![o] = Dead]
    /\ hist' = [hist EXCEPT ![o] = Reset(@)]
    /\ UNCHANGED <<liveCtx, liveBio, doubleFree, platform, cfgTimeout>>

\* ~SecureSMTPClientBase(): cleanup(), then the object is gone
Destroy(o) ==
    /\ alive[o]
    /\ \E r \in {cleanup(Begin(objs[o]), platform)} :
           /\ SetHeap(r.log)
           /\ last' = Op("destroy", o, o, 0, r.log, <<>>, <<>>)
    /\ alive' = [alive EXCEPT ![o] = FALSE]
    /\ objs' = [objs EXCEPT ![o] = Dead]
    /\ hist' = [hist EXCEPT ![o] = Reset(@)]
    /\ UNCHANGED <<platform, cfgTimeout>>

\* the plaintext session of the base client: the socket is connected
InitializeSession(o) ==
    /\ alive[o]
    /\ objs[o].mSock = NoSock
    /\ objs' = [objs EXCEPT ![o].mSock = FreshSock]
    /\ last' = Op("initializeSession", o, o, 0, <<>>, <<>>, <<>>)
    /\ UNCHANGED <<alive, liveCtx, liveBio, doubleFree, platform, cfgTimeout, hist>>

Cleanup(o) ==
    /\ alive[o]
    /\ \E r \in {cleanup(Begin(objs[o]), platform)} :
           /\ SetHeap(r.log)
           /\ objs' = [objs EXCEPT ![o] = r.self]
           /\ hist' = [hist EXCEPT ![o] = Kept(@, r.self)]
           /\ last' = Op("cleanup", o, o, 0, r.log, <<>>, <<>>)
    /\ UNCHANGED <<alive, platform, cfgTimeout>>

StartTLS(o) ==
    /\ alive[o]
    /\ \E env \in TLSEnvs :
        /\ Fresh(liveCtx) = nullptr => "Init" \in env.fail
        /\ Fresh(liveBio) = nullptr => ("Init" \in env.fail \/ "Bind" \in env.fail)
        /\ \E r \in {startTLSNegotiation(objs[o], env, Fresh(liveCtx), Fresh(liveBio), platform)} :
               /\ SetHeap(r.log)
               /\ objs' = [objs EXCEPT ![o] = r.self]
               /\ hist' = [hist EXCEPT ![o] = Negotiated(@, r.ret)]
               /\ last' = Op("startTLSNegotiation", o, o, r.ret, r.log, <<>>, <<>>)
    /\ UNCHANGED <<alive, platform, cfgTimeout>>

SendCommand(o) ==
    /\ alive[o]
    /\ \E env \in WriteEnvs, codes \in CallerCodes :
        \E r \in {sendCommand(objs[o], env, codes[1], platform)} :
            /\ SetHeap(r.log)
            /\ objs' = [objs EXCEPT ![o] = r.self]
            /\ hist' = [hist EXCEPT ![o] = Kept(@, r.self)]
            /\ last' = Op("sendCommand", o, o, r.ret, r.log, codes, <<>>)
    /\ UNCHANGED <<alive, platform, cfgTimeout>>

SendCommandWithFeedback(o) ==
    /\ alive[o]
    /\ \E env \in FeedbackEnvs(objs[o].mCommandTimeOut), codes \in CallerCodes :
        \E r \in {sendCommandWithFeedback(objs[o], env, codes[1], codes[2], platform)} :
        LET got == \E i \in 1..Len(r.log) : r.log[i][1] = "BIO_read" /\ r.log[i][2] > 0
        IN  /\ SetHeap(r.log)
            /\ objs' = [objs EXCEPT ![o] = r.self]
            /\ hist' = [hist EXCEPT ![o] = Kept(@, r.self)]
            /\ last' = Op("sendCommandWithFeedback", o, o, r.ret, r.log,
                          codes, IF got THEN env.data ELSE <<>>)
    /\ UNCHANGED <<alive, platform, cfgTimeout>>

CopyConstruct(o, other) ==
    /\ ~alive[o] /\ alive[other]
    /\ alive' = [alive EXCEPT ![o] = TRUE]
    /\ objs' = [objs EXCEPT ![o] = copyConstruct(objs[other])]
    /\ hist' = [hist EXCEPT ![o] = Reset(@)]
    /\ last' = Op("copyConstruct", o, other, 0, <<>>, <<>>, <<>>)
    /\ UNCHANGED <<liveCtx, liveBio, doubleFree, platform, cfgTimeout>>

CopyAssign(o, other) ==
    /\ alive[o] /\ alive[other]
    /\ objs' = IF o # other THEN [objs EXCEPT ![o] = copyAssign(objs[o], objs[other])]
               ELSE objs
    /\ hist' = IF o # other THEN [hist EXCEPT ![o].secure = FALSE] ELSE hist
    /\ last' = Op("copyAssign", o, other, 0, <<>>, <<>>, <<>>)
    /\ UNCHANGED <<alive, liveCtx, liveBio, doubleFree, platform, cfgTimeout>>

MoveConstruct(o, other) ==
    /\ ~alive[o] /\ alive[other]
    /\ alive' = [alive EXCEPT ![o] = TRUE]
    /\ \E r \in {moveConstruct(objs[other])} :
           objs' = [objs EXCEPT ![o] = r.self, ![other] = r.other]
    /\ hist' = [hist EXCEPT ![o] = hist[other], ![other].secure = FALSE]
    /\ last' = Op("moveConstruct", o, other, 0, <<>>, <<>>, <<>>)
    /\ UNCHANGED <<liveCtx, liveBio, doubleFree, platform, cfgTimeout>>

MoveAssign(o, other) ==
    /\ alive[o] /\ alive[other]
    /\ objs' = IF o # other
               THEN LET r == moveAssign(objs[o], objs[other])
                    IN  [objs EXCEPT ![o] = r.self, ![other] = r.other]
               ELSE objs
    /\ hist' = IF o # other
               THEN [hist EXCEPT ![o].secure = hist[other].secure, ![other].secure = FALSE]
               ELSE hist
    /\ last' = Op("moveAssign", o, other, 0, <<>>, <<>>, <<>>)
    /\ UNCHANGED <<alive, liveCtx, liveBio, doubleFree, platform, cfgTimeout>>

\* the plaintext EHLO of the base class stores the options the server
\* advertised before the upgrade
PlainEhlo(o) ==
    /\ alive[o]
    /\ objs[o].mAuthOptions = NoAuth
    /\ objs' = [objs EXCEPT ![o].mAuthOptions = PlainAuthOptions]
    /\ last' = Op("plainEhlo", o, o, EHLO_SUCCESS_CODE, <<>>, <<>>, <<>>)
    /\ UNCHANGED <<alive, liveCtx, liveBio, doubleFree, platform, cfgTimeout, hist>>

GetServerSecureIdentification(o) ==
    /\ alive[o]
    /\ \E env \in FeedbackEnvs(objs[o].mCommandTimeOut) :
         \E r \in {getServerSecureIdentification(objs[o], env, platform)} :
            /\ SetHeap(r.log)
            /\ objs' = [objs EXCEPT ![o] = r.self]
            /\ hist' = [hist EXCEPT ![o] = Kept(@, r.self)]
            /\ last' = Op("getServerSecureIdentification", o, o, r.ret, r.log,
                          <<SSL_CLIENT_INITSECURECLIENT_ERROR,
                            SSL_CLIENT_INITSECURECLIENT_TIMEOUT>>,
                          IF \E i \in 1..Len(r.log) :
                                r.log[i][1] = "BIO_read" /\ r.log[i][2] > 0
                          THEN env.data ELSE <<>>)
    /\ UNCHANGED <<alive, platform, cfgTimeout>>

\* one connection object: the upgrade and the command channel
Next ==
    \/ Construct("a")
    \/ Destroy("a")
    \/ InitializeSession("a")
    \/ Cleanup("a")
    \/ StartTLS("a")
    \/ SendCommand("a")
    \/ SendCommandWithFeedback("a")

Spec == Init /\ [][Next]_vars

\* startTLSNegotiation on an object it was not called on before
StartTLSOnce(o) == ~hist[o].called /\ StartTLS(o)

\* one connection object on which startTLSNegotiation is called at most
\* once in its lifetime
NextOnce ==
    \/ Construct("a")
    \/ Destroy("a")
    \/ InitializeSession("a")
    \/ Cleanup("a")
    \/ StartTLSOnce("a")
    \/ SendCommand("a")
    \/ SendCommandWithFeedback("a")

SpecOnce == Init /\ [][NextOnce]_vars

\* one connection object: the upgrade and the secure EHLO
NextEhlo ==
    \/ Construct("a")
    \/ Destroy("a")
    \/ Cleanup("a")
    \/ PlainEhlo("a")
    \/ StartTLS("a")
    \/ GetServerSecureIdentification("a")

SpecEhlo == Init /\ [][NextEhlo]_vars

\* two connection objects: ownership of the handles under copy and move
NextOwn ==
    \/ \E o \in Obj : Construct(o)
    \/ \E o \in Obj : Destroy(o)
    \/ \E o \in Obj : Cleanup(o)
    \/ \E o \in Obj : StartTLS(o)
    \/ \E o, other \in Obj : CopyConstruct(o, other)
    \/ \E o, other \in Obj : CopyAssign(o, other)
    \/ \E o, other \in Obj : MoveConstruct(o, other)
    \/ \E o, other \in Obj : MoveAssign(o, other)

\* the Timeout Budget and the history of the negotiations play no part
\* without commands
InitOwn == InitBase /\ cfgTimeout = MaxTimeout /\ hist = [o \in Obj |-> Untracked]

SpecOwn == InitOwn /\ [][NextOwn]_vars

TypeOK ==
    /\ alive \in [Obj -> BOOLEAN]
    /\ \A o \in Obj : objs[o].mCTX \in Handles \cup {nullptr}
    /\ \A o \in Obj : objs[o].mBIO \in Handles \cup {nullptr}
    /\ \A o \in Obj : objs[o].mSSL \in Handles \cup {nullptr}
    /\ \A o \in Obj : objs[o].mSock \in Socks \cup {NoSock}
    /\ liveCtx \subseteq Handles /\ liveBio \subseteq Handles
    /\ \A o \in Obj : Len(objs[o].mAuthOptions) \in {0, 1}
    /\ hist \in [Obj -> [tracked : BOOLEAN, called : BOOLEAN, secure : BOOLEAN]]

----------------------------------------------------------------------------
(* Vocabulary of the properties *)

\* the object holds no TLS handle and no socket
TornDown(self) ==
    /\ self.mCTX = nullptr /\ self.mBIO = nullptr /\ self.mSSL = nullptr
    /\ self.mSock = NoSock

HasCall(log, name) == \E i \in 1..Len(log) : log[i][1] = name

\* the position of the first call of that name in a log (0: none)
IndexOf(log, name) ==
    IF HasCall(log, name) THEN Min({i \in 1..Len(log) : log[i][1] = name}) ELSE 0

LastTLS == last.op = "startTLSNegotiation"
LastSend == last.op = "sendCommand"
LastFeedback == last.op = "sendCommandWithFeedback"

\* the verification result read after the handshake, as a set (empty when
\* it was not read)
PostVerify(log) ==
    { log[i][2] : i \in { j \in 1..Len(log) : /\ log[j][1] = "SSL_get_verify_result"
                                              /\ IndexOf(log, "BIO_do_handshake") # 0
                                              /\ j > IndexOf(log, "BIO_do_handshake") } }

\* the peer certificate the call retrieved, as a set
PeerCert(log) ==
    { log[i][2] : i \in { j \in 1..Len(log) : log[j][1] = "SSL_get_peer_certificate" } }

----------------------------------------------------------------------------
(* C1 *)

\* C1: startTLSNegotiation returns 0 only if in that call the peer
\* certificate was present and the verification result read after the
\* handshake was X509_V_OK; when the certificate is absent it returns
\* SSL_CLIENT_STARTTLS_GET_CERTIFICATE_ERROR, when the result is not OK it
\* returns SSL_CLIENT_STARTTLS_VERIFY_RESULT_ERROR, and in both cases the
\* object is left with mCTX, mBIO, mSSL empty and mSock = 0.
C1_SuccessMeansVerified ==
    LastTLS =>
        /\ last.ret = 0 =>
              /\ PeerCert(last.log) # {} /\ nullptr \notin PeerCert(last.log)
              /\ PostVerify(last.log) = {X509_V_OK}
        /\ nullptr \in PeerCert(last.log) =>
              /\ last.ret = SSL_CLIENT_STARTTLS_GET_CERTIFICATE_ERROR
              /\ TornDown(objs[last.o])
        /\ PostVerify(last.log) \notin {{}, {X509_V_OK}} =>
              /\ last.ret = SSL_CLIENT_STARTTLS_VERIFY_RESULT_ERROR
              /\ TornDown(objs[last.o])

\* a connected object whose handshake completed without a peer certificate
C1_Witness ==
    /\ LastTLS
    /\ nullptr \in PeerCert(last.log)
    /\ HasCall(last.log, "close")
    /\ HasCall(last.log, "BIO_free_all")

----------------------------------------------------------------------------
(* C2 *)

\* the last operation returned one of its failure codes
FailureReturn ==
    \/ LastTLS /\ last.ret # 0
    \/ LastSend /\ last.ret # 0
    \/ LastFeedback /\ last.ret \in {last.args[1], last.args[2]}

\* C2: whenever startTLSNegotiation, sendCommand or sendCommandWithFeedback
\* returns a failure code, the TLS context handle and the TLS session handle
\* of the object are both empty.
C2_FailureAfterTeardown ==
    FailureReturn => objs[last.o].mCTX = nullptr /\ objs[last.o].mBIO = nullptr

----------------------------------------------------------------------------
(* C3 *)

\* the releases cleanup() owes an object: the context, then the session,
\* then the socket, each only when held
OwedReleases(self) ==
    (IF self.mCTX # nullptr THEN <<Call("SSL_CTX_free", self.mCTX)>> ELSE <<>>)
    \o (IF self.mBIO # nullptr THEN <<Call("BIO_free_all", self.mBIO)>> ELSE <<>>)
    \o (IF self.mSock # NoSock THEN <<Call("close", self.mSock)>> ELSE <<>>)

C3_CleanupStep ==
    last'.op = "cleanup" =>
        /\ Frees(last'.log) = OwedReleases(objs[last'.o])
        /\ TornDown(objs'[last'.o])
        /\ (last.op = "cleanup" /\ last.o = last'.o) =>
              /\ Frees(last'.log) = <<>>
              /\ objs' = objs

\* C3: one cleanup() releases exactly the handles that are held, the context
\* first, then the session, then the socket, and leaves mCTX, mBIO, mSSL
\* empty and mSock = 0; a second consecutive call releases nothing and
\* leaves the same state.
C3_CleanupIdempotent == [][C3_CleanupStep]_vars

\* cleanup() has released a context, a session and a socket
C3_Witness ==
    /\ last.op = "cleanup"
    /\ Len(Frees(last.log)) = 3

----------------------------------------------------------------------------
(* C4, C5 *)

\* no context and no session handle is held by two objects
NoSharedHandle ==
    \A o, p \in Obj :
        o # p =>
            /\ objs[o].mCTX # nullptr => objs[o].mCTX # objs[p].mCTX
            /\ objs[o].mBIO # nullptr => objs[o].mBIO # objs[p].mBIO

C4_MoveStep ==
    (last'.op \in {"moveConstruct", "moveAssign"} /\ last'.o # last'.src) =>
        /\ objs'[last'.o].mCTX = objs[last'.src].mCTX
        /\ objs'[last'.o].mBIO = objs[last'.src].mBIO
        /\ objs'[last'.o].mSSL = objs[last'.src].mSSL
        /\ objs'[last'.src].mCTX = nullptr
        /\ objs'[last'.src].mBIO = nullptr
        /\ objs'[last'.src].mSSL = nullptr

\* C4: a move (construction or assignment) puts the three handles of the
\* source into the destination and empties them in the source; no handle is
\* released twice, whatever is cleaned up or destroyed afterwards.
C4_MoveTransfers == [][C4_MoveStep]_vars /\ []~doubleFree

\* a live context and session were moved to another object
C4_Witness ==
    /\ last.op \in {"moveConstruct", "moveAssign"}
    /\ last.o # last.src
    /\ objs[last.o].mCTX # nullptr
    /\ objs[last.o].mBIO # nullptr

C5_CopyStep ==
    (last'.op \in {"copyConstruct", "copyAssign"} /\ last'.o # last'.src) =>
        /\ objs'[last'.o].mCTX = nullptr
        /\ objs'[last'.o].mBIO = nullptr
        /\ objs'[last'.o].mSSL = nullptr
        /\ objs'[last'.src] = objs[last'.src]

\* C5: a copy (construction or assignment from another object) leaves the
\* destination's mCTX, mBIO, mSSL empty whatever the source holds and leaves
\* the source as it was; no context or session handle is ever held by two
\* objects.
C5_CopyHoldsNothing == [][C5_CopyStep]_vars /\ []NoSharedHandle

\* an object was copied from one that holds a live session
C5_Witness ==
    /\ last.op \in {"copyConstruct", "copyAssign"}
    /\ last.o # last.src
    /\ objs[last.src].mBIO # nullptr
    /\ objs[last.src].mCTX # nullptr

----------------------------------------------------------------------------
(* C6, C7, C8 *)

\* the write of the last command succeeded
WriteDone(log) == Len(log) >= 1 /\ log[1][1] = "BIO_puts" /\ log[1][2] >= 0

\* no read of the log yielded data
NoDataRead(log) == \A i \in 1..Len(log) : log[i][1] = "BIO_read" => log[i][2] <= 0

\* the reads of a log that yielded data while fewer than `budget` waits had
\* been made
ReadsInBudget(log, budget) ==
    { i \in 1..Len(log) : /\ log[i][1] = "BIO_read" /\ log[i][2] > 0
                          /\ Count(SubSeq(log, 1, i), "sleep") < budget }

ButLast(data) == SubSeq(data, 1, Len(data) - 1)

C7_AcceptStep ==
    (last'.op = "sendCommandWithFeedback"
        /\ ReadsInBudget(last'.log, objs[last'.o].mCommandTimeOut) # {}) =>
        /\ objs'[last'.o].mLastServerResponse = ButLast(last'.data)
        /\ last'.ret = extractReturnCode(last'.data)
        /\ last'.ret # last'.args[2]
        /\ Frees(last'.log) = <<>>
        /\ objs' = [objs EXCEPT ![last'.o].mLastServerResponse = ButLast(last'.data)]

\* C7: when a read made while the elapsed-wait counter is below the Timeout
\* Budget yields data, sendCommandWithFeedback records the data (cut before
\* its last byte) as the last server response, returns the status code it
\* starts with and not the timeout code, and releases nothing.
C7_ResponseInBudgetAccepted == [][C7_AcceptStep]_vars

\* the reply was accepted at the last read attempt within the budget
C7_Witness ==
    /\ LastFeedback
    /\ objs[last.o].mCommandTimeOut = MaxTimeout
    /\ ReadsInBudget(last.log, MaxTimeout) # {}
    /\ Count(last.log, "sleep") = MaxTimeout - 1

\* a reply of one line: a text without line terminator, then CR LF
OneLine(data) ==
    /\ Len(data) >= 2
    /\ data[Len(data) - 1] = "\r" /\ data[Len(data)] = "\n"
    /\ \A i \in 1..(Len(data) - 2) : data[i] \notin {"\r", "\n"}

\* C8: for a received line made of a reply text and CR LF,
\* sendCommandWithFeedback stores the text with the whole terminator stripped
\* and returns the leading status code.
C8_TerminatorStripped ==
    (LastFeedback /\ OneLine(last.data) /\ last.ret # last.args[2]) =>
        /\ objs[last.o].mLastServerResponse = SubSeq(last.data, 1, Len(last.data) - 2)
        /\ last.ret = extractReturnCode(last.data)

----------------------------------------------------------------------------
(* C9 *)

\* the stages of the negotiation as the library calls that carry them out
StageCalls(plat) ==
    <<"SSL_CTX_new", "BIO_new_ssl_connect", TrustCall(plat), "SSL_get_verify_result",
      "BIO_do_connect", "BIO_do_handshake", "SSL_get_peer_certificate",
      "SSL_get_verify_result">>

\* the calls of a log that carry out a stage
RECURSIVE StagesOf(_, _)
StagesOf(log, plat) ==
    IF log = <<>> THEN <<>>
    ELSE (IF \E i \in 1..8 : StageCalls(plat)[i] = Head(log)[1] THEN <<Head(log)>> ELSE <<>>)
         \o StagesOf(Tail(log), plat)

\* the i-th stage, carried out with result v, failed; the fourth (the
\* pre-check) cannot
StageFailed(i, v) ==
    CASE i \in {1, 2, 7} -> v = nullptr
      [] i \in {3, 5, 6} -> v <= 0
      [] i = 4 -> FALSE
      [] i = 8 -> v # X509_V_OK

\* the error code of each stage
StageError(i, plat) ==
    CASE i = 1 -> SSL_CLIENT_STARTTLS_INITSSLCTX_ERROR
      [] i = 2 -> SSL_CLIENT_STARTTLS_BIONEWSSLCONNECT_ERROR
      [] i = 3 -> (IF plat = "WIN32" THEN SSL_CLIENT_STARTTLS_WIN_CERTOPENSYSTEMSTORE_ERROR
                   ELSE SSL_CLIENT_STARTTLS_CTX_SET_DEFAULT_VERIFY_PATHS_ERROR)
      [] i = 5 -> SSL_CLIENT_STARTTLS_BIO_CONNECT_ERROR
      [] i = 6 -> SSL_CLIENT_STARTTLS_BIO_HANDSHAKE_ERROR
      [] i = 7 -> SSL_CLIENT_STARTTLS_GET_CERTIFICATE_ERROR
      [] i = 8 -> SSL_CLIENT_STARTTLS_VERIFY_RESULT_ERROR
      [] OTHER -> 0

\* C9: the stages of startTLSNegotiation run in the order context, session,
\* trust, pre-check, connect, handshake, peer certificate, chain
\* verification; the call returns the error code of the first stage that
\* fails and attempts no later stage (after a failed trust stage: no
\* connect, handshake or check), and returns 0 only after all eight.
C9_LinearEarlyExit ==
    LastTLS =>
        LET st == StagesOf(last.log, platform)
            n  == Len(st)
        IN  /\ n >= 1
            /\ IsPrefix(CallNames(st), StageCalls(platform))
            /\ \A i \in 1..(n - 1) : ~StageFailed(i, st[i][2])
            /\ IF StageFailed(n, st[n][2])
               THEN last.ret = StageError(n, platform)
               ELSE n = 8 /\ last.ret = 0

\* the trust stage failed after the context and the session were created
C9_Witness ==
    /\ LastTLS
    /\ Len(StagesOf(last.log, platform)) = 3
    /\ last.ret \in {SSL_CLIENT_STARTTLS_WIN_CERTOPENSYSTEMSTORE_ERROR,
                     SSL_CLIENT_STARTTLS_CTX_SET_DEFAULT_VERIFY_PATHS_ERROR}

----------------------------------------------------------------------------
(* C10 *)

C10_SendStep ==
    last'.op = "sendCommand" =>
        IF last'.log[1][2] < 0
        THEN /\ HasCall(last'.log, "ERR_get_error")
             /\ objs'[last'.o].mLastSocketErrNo
                    = last'.log[IndexOf(last'.log, "ERR_get_error")][2]
             /\ TornDown(objs'[last'.o])
             /\ last'.ret = last'.args[1]
        ELSE /\ last'.ret = 0
             /\ objs' = objs

\* C10: when the write of sendCommand returns a negative result, the library
\* error is kept in mLastSocketErrNo, mCTX, mBIO, mSSL are emptied, mSock is
\* set to 0 and the caller's error code is returned; otherwise the call
\* returns 0 and changes no field of the object.
C10_SendCommand == [][C10_SendStep]_vars

\* a write failed on a live, connected session
C10_Witness ==
    /\ LastSend
    /\ last.log[1][2] < 0
    /\ HasCall(last.log, "SSL_CTX_free")
    /\ HasCall(last.log, "BIO_free_all")
    /\ HasCall(last.log, "close")
    /\ objs[last.o].mLastSocketErrNo # 0


----------------------------------------------------------------------------
(* C11 *)

LastEhlo == last.op = "getServerSecureIdentification"

\* the secure EHLO of a step yielded status code 250: a reply was read
\* within the Timeout Budget and starts with 250
Yields250(log, data, budget) ==
    ReadsInBudget(log, budget) # {} /\ extractReturnCode(data) = EHLO_SUCCESS_CODE

C11_EhloStep ==
    (last'.op = "getServerSecureIdentification") =>
        LET o == last'.o
            log == last'.log
            budget == objs[o].mCommandTimeOut
            yields == Yields250(log, last'.data, budget)
        IN  /\ (last'.ret = EHLO_SUCCESS_CODE) <=> yields
            /\ yields =>
                 /\ Count(log, "delete") = 1
                 /\ log[IndexOf(log, "delete")][2] = Len(objs[o].mAuthOptions)
                 /\ IndexOf(log, "delete") < IndexOf(log, "extractAuthenticationOptions")
                 /\ objs'[o].mAuthOptions =
                        extractAuthenticationOptions(ButLast(last'.data))
            /\ ~yields =>
                 /\ objs'[o].mAuthOptions = objs[o].mAuthOptions
                 /\ ~HasCall(log, "delete")
                 /\ ~HasCall(log, "extractAuthenticationOptions")
                 /\ last'.ret =
                        IF ~WriteDone(log) THEN SSL_CLIENT_INITSECURECLIENT_ERROR
                        ELSE IF ReadsInBudget(log, budget) = {}
                        THEN SSL_CLIENT_INITSECURECLIENT_TIMEOUT
                        ELSE extractReturnCode(last'.data)

\* C11: getServerSecureIdentification returns 250 exactly when the secure
\* EHLO exchange yields status code 250, and then the old mAuthOptions is
\* deleted exactly once and replaced by the options parsed from the secure
\* EHLO response; for every other outcome (another status code, the send
\* error code, the timeout code) it returns that code and leaves
\* mAuthOptions as it was.
C11_SecureEhlo == [][C11_EhloStep]_vars

\* the options of the plaintext phase were replaced by the two capabilities
\* of a two-line secure EHLO response
C11_Witness ==
    /\ LastEhlo /\ last.ret = EHLO_SUCCESS_CODE
    /\ last.data = ReplyEhlo
    /\ HasCall(last.log, "delete") /\ last.log[IndexOf(last.log, "delete")][2] = 1
    /\ objs[last.o].mAuthOptions = << { <<"A">>, <<"B">> } >>


----------------------------------------------------------------------------
(* C12 *)

\* C12: for a connection object on which startTLSNegotiation is called once
\* (and fails at any stage, or succeeds and a later command fails or times
\* out), every TLS context and session created is released exactly once by
\* the time the object has been destroyed: nothing is released twice, and
\* nothing created is left once the object is gone.
C12_ReleasedExactlyOnce ==
    /\ ~doubleFree
    /\ ~alive["a"] => (liveCtx = {} /\ liveBio = {})

\* the destructor released the context a negotiation that failed at the
\* Bind stage had left in mCTX
C12_Witness ==
    /\ last.op = "destroy"
    /\ HasCall(last.log, "SSL_CTX_free") /\ ~HasCall(last.log, "BIO_free_all")
    /\ liveCtx = {} /\ liveBio = {}


----------------------------------------------------------------------------
(* C13 *)

\* C13: sendCommandWithFeedback returns the timeout code only when the
\* Timeout Budget was exhausted without data: if any read of the call
\* yielded data (also the read made after the last wait, also with a
\* budget of 0), the call does not return the timeout code and does not
\* discard the data.
C13_DataNeverDiscarded ==
    (LastFeedback /\ WriteDone(last.log) /\ ~NoDataRead(last.log)) =>
        /\ last.ret # last.args[2]
        /\ objs[last.o].mLastServerResponse # <<>>
        /\ IsPrefix(objs[last.o].mLastServerResponse, last.data)
        /\ Frees(last.log) = <<>>


----------------------------------------------------------------------------
(* C14 *)

NotDiagnostic(c) == c[1] # "fprintf"

\* a log without the pre-handshake check: without its diagnostic and
\* without its read of the verification result, the first of the log
AfterAdvisory(log) ==
    LET i == IndexOf(log, "SSL_get_verify_result")
    IN  SelectSeq([k \in 1..Len(log) |-> IF k = i THEN Call("fprintf", 0) ELSE log[k]],
                  NotDiagnostic)

\* the environments startTLSNegotiation can meet in this state in which the
\* pre-handshake check yields X509_V_OK
CleanPreCheckEnvs ==
    { env \in TLSEnvs :
        /\ Advisory \notin env.fail
        /\ Fresh(liveCtx) = nullptr => "Init" \in env.fail
        /\ Fresh(liveBio) = nullptr => ("Init" \in env.fail \/ "Bind" \in env.fail) }

\* C14: the pre-handshake verification check is advisory only: two runs of
\* startTLSNegotiation from the same state that differ only in the value
\* the pre-handshake check yields make the same calls after it, return the
\* same code and leave the same fields and the same handles alive.
C14_PreCheckAdvisory ==
    alive["a"] =>
        \A env \in CleanPreCheckEnvs :
            LET ok  == startTLSNegotiation(objs["a"], env, Fresh(liveCtx),
                                           Fresh(liveBio), platform)
                bad == startTLSNegotiation(objs["a"],
                                           [env EXCEPT !.fail = @ \cup {Advisory}],
                                           Fresh(liveCtx), Fresh(liveBio), platform)
            IN  /\ ok.ret = bad.ret
                /\ ok.self = bad.self
                /\ AfterAdvisory(ok.log) = AfterAdvisory(bad.log)
                /\ Heap(HeapNow, ok.log) = Heap(HeapNow, bad.log)

\* a negotiation whose pre-handshake check reported a problem went on and
\* succeeded
C14_Witness ==
    /\ LastTLS /\ last.ret = 0
    /\ HasCall(last.log, "fprintf")
    /\ last.log[IndexOf(last.log, "SSL_get_verify_result")][2] = X509_V_ERR
    /\ HasCall(last.log, "BIO_do_handshake")


----------------------------------------------------------------------------
(* C15 *)

\* a reply of several lines: a line feed before the one that ends it
MultiLine(data) == \E i \in 1..(Len(data) - 1) : data[i] = "\n"

\* the text of a reply before its first line terminator
FirstLine(data) ==
    SubSeq(data, 1, Min({k \in 1..Len(data) : data[k] \in {"\r", "\n"}}
                        \cup {Len(data) + 1}) - 1)

\* a reply of several lines was accepted by the last command
MultiLineAccepted ==
    /\ LastFeedback /\ MultiLine(last.data)
    /\ ReadsInBudget(last.log, objs[last.o].mCommandTimeOut) # {}

\* C15 as the spec states it: for a received buffer of several CRLF-terminated
\* lines the stored last server response holds only the text before the
\* first line terminator.
C15_FirstLineStored ==
    MultiLineAccepted => objs[last.o].mLastServerResponse = FirstLine(last.data)

\* C15 as the code has it: the stored last server response is cut before the
\* last byte of the received buffer only; for a buffer of several lines it
\* holds every line, the terminators between them included.
C15_AllLinesStored ==
    MultiLineAccepted =>
        /\ objs[last.o].mLastServerResponse = ButLast(last.data)
        /\ Len(Lines(objs[last.o].mLastServerResponse)) = Len(Lines(last.data))
        /\ objs[last.o].mLastServerResponse # FirstLine(last.data)

\* the two-line EHLO reply was accepted and stored
C15_Witness ==
    /\ MultiLineAccepted /\ last.data = ReplyEhlo
    /\ last.ret = EHLO_SUCCESS_CODE
    /\ Len(Lines(objs[last.o].mLastServerResponse)) = 2


----------------------------------------------------------------------------
(* C16 *)

\* the operations that write to or read from the session
CommandOps == {"sendCommand", "sendCommandWithFeedback", "getServerSecureIdentification"}

C16_UseStep ==
    (last'.op \in CommandOps
        /\ (HasCall(last'.log, "BIO_puts") \/ HasCall(last'.log, "BIO_read"))) =>
        /\ objs[last'.o].mBIO # nullptr
        /\ hist[last'.o].secure

\* C16: the TLS session is never used before a successful handshake or after
\* teardown: a write or read on the session handle is made only in states
\* where mBIO is non-empty and the last startTLSNegotiation succeeded with no
\* cleanup since; a command issued after a timeout or send failure tore the
\* session down does not write to an empty session handle.
C16_SessionUsedOnlyWhenSecure == [][C16_UseStep]_vars


----------------------------------------------------------------------------
(* C17 *)

\* the handle a call of that name created in a log (nullptr: none)
Created(log, name) ==
    IF \E i \in 1..Len(log) : log[i][1] = name /\ log[i][2] # nullptr
    THEN log[IndexOf(log, name)][2] ELSE nullptr

C17_NegotiateStep ==
    (last'.op = "startTLSNegotiation") =>
        /\ objs[last'.o].mCTX # nullptr => Created(last'.log, "SSL_CTX_new") = nullptr
        /\ objs[last'.o].mBIO # nullptr => Created(last'.log, "BIO_new_ssl_connect") = nullptr

\* at most one context and one session are created and not released
OneOfEach == Cardinality(liveCtx) <= 1 /\ Cardinality(liveBio) <= 1

\* C17: no live handle is ever overwritten by startTLSNegotiation, also when
\* it is called again after a success or after a failure at the context,
\* session or trust stage: the call assigns no new context to mCTX and no
\* new session to mBIO while the previous one is held and unreleased, so at
\* most one created-and-unreleased context and one session exist per
\* connection object.
C17_NoLiveHandleOverwritten == [][C17_NegotiateStep]_vars /\ []OneOfEach


----------------------------------------------------------------------------
(* C18 *)

\* some object holds the context / the session
CtxHeld(os, h) == \E o \in Obj : os[o].mCTX = h
BioHeld(os, h) == \E o \in Obj : os[o].mBIO = h

\* after an assignment, the handles its destination held are released or
\* still held by an object
C18_AssignStep ==
    (last'.op \in {"copyAssign", "moveAssign"}) =>
        LET ctx == objs[last'.o].mCTX
            bio == objs[last'.o].mBIO
        IN  /\ (ctx # nullptr /\ ctx \in liveCtx) =>
                    (ctx \notin liveCtx' \/ CtxHeld(objs', ctx))
            /\ (bio # nullptr /\ bio \in liveBio) =>
                    (bio \notin liveBio' \/ BioHeld(objs', bio))

\* nothing created is left when no object is left
NothingLeftBehind ==
    (\A o \in Obj : ~alive[o]) => (liveCtx = {} /\ liveBio = {})

\* C18: copy assignment and move assignment do not lose the handles their
\* destination holds: those are released exactly once, so that after any
\* sequence of assignments followed by the destruction of all objects every
\* created context and session has been released.
C18_AssignmentKeepsOwnership ==
    [][C18_AssignStep]_vars /\ [](~doubleFree /\ NothingLeftBehind)


----------------------------------------------------------------------------
(* C19 *)

\* the Trust stage of the last negotiation opened the system store
StoreOpened(log) ==
    \E i \in 1..Len(log) : log[i][1] = "CertOpenSystemStore" /\ log[i][2] # 0

\* C19: on WIN32 the system certificate store opened in the Trust stage is
\* closed on every exit path of startTLSNegotiation taken after it was
\* opened, the returns on a connect, handshake, missing-certificate or
\* verification error included.
C19_StoreClosed ==
    (LastTLS /\ platform = "WIN32" /\ StoreOpened(last.log)) =>
        /\ Count(last.log, "CertCloseStore") = 1
        /\ IndexOf(last.log, "CertOpenSystemStore") < IndexOf(last.log, "CertCloseStore")


----------------------------------------------------------------------------
(* C20 *)

\* C20: in every state between public operations, mSSL is non-empty only
\* if mBIO is non-empty, and mBIO is non-empty only if mCTX is non-empty.
C20_HandlesNested ==
    \A o \in Obj :
        /\ objs[o].mSSL # nullptr => objs[o].mBIO # nullptr
        /\ objs[o].mBIO # nullptr => objs[o].mCTX # nullptr

====
